---- MODULE Spec2Model ----
(***************************************************************************)
(* A model of timberjack's rolling log writer (src/timberjack.go).         *)
(*                                                                         *)
(* The directory of the log file is a function from file names to file     *)
(* contents.  A file name is a sequence of string tokens (the prefix, the  *)
(* "-" separator, the formatted timestamp, the extension, the compression  *)
(* suffix), a file content a sequence of bytes.  The clock counts ticks;   *)
(* TicksPerMilli ticks make one millisecond, the resolution of the         *)
(* timestamp layout of backup names.  Sizes are counted in bytes with the  *)
(* package variable megabyte set to 1, as the repository's tests set it.   *)
(*                                                                         *)
(* Write, Rotate and Close hold the logger's mutex from entry to return,   *)
(* so each is one action; all clock readings of one call are the same      *)
(* reading.  ret holds the result of the call that has just returned and   *)
(* pre the logger and the directory as that call found them.  Under Spec   *)
(* every system call succeeds; under SpecFault one kind of system call     *)
(* (F) fails during a call.                                                *)
(*                                                                         *)
(* The mill goroutine runs outside the mutex: it takes a notification and  *)
(* lists the directory (millRun, the listing kept in millFiles), and later *)
(* removes and compresses by that listing (millApply).  SpecMill runs the  *)
(* logger with retention and compression configured in a directory that   *)
(* holds backups of an earlier run and entries that are no backups.        *)
(* SpecResume writes one byte at a time over such a directory, so that    *)
(* the first Write rotates nothing.  SpecMillFair adds the fairness of the *)
(* goroutine's steps, for what must eventually happen.                     *)
(* SpecCodec applies backupName and timeFromName to every instant.         *)
(*                                                                         *)
(* SpecLock takes the mutex apart: two goroutines call the logger, a call  *)
(* being the arrival at Lock, the acquisition, the body (that of Write in  *)
(* two steps, its tests and its append) and the Unlock.  SpecCompress      *)
(* takes compressLogFile one system call at a time, each of which may      *)
(* fail.  SpecSched adds a goroutine that rotates at recurring marks; the  *)
(* source has none, so its loop follows the specification of the           *)
(* scheduled rotation, while what it calls is rotate of the source.        *)
(***************************************************************************)
EXTENDS Integers, Sequences, FiniteSets, TLC

\* ---------------------------------------------------------------- bounds
CapMB == 3          \* the configured Logger.MaxSize
MaxTime == 2        \* the clock stops advancing at this tick
Interval == 2       \* the non-zero RotationInterval, in ticks
TicksPerMilli == 2  \* clock ticks per millisecond of the timestamp layout
ZoneOffset == 2     \* how far the local zone is ahead of UTC, in ticks
DayTicks == 4       \* clock ticks per day of MaxAge
MaxKeep == 1        \* the largest configured Logger.MaxBackups
MarkEvery == 2      \* clock ticks from one scheduled mark to the next

\* ------------------------------------------------------ program constants
megabyte == 1       \* the package variable, as the tests set it
defaultMaxSize == 100
millChCap == 1
compressSuffix == ".gz"
ZeroTime == -1      \* the zero time.Time of a never-set lastRotationTime

Nil == "nil"
Open == "open"
NoErr == "none"
OldByte == "old"    \* a byte of a file that existed before the logger
NewByte == "new"    \* a byte handed to Write
GzHeader == "gzip"  \* what gzip puts in front of the bytes it packs
DirMark == "dir"    \* what a directory entry that is a directory holds

VARIABLES
    MaxSize, MaxAge, MaxBackups, Compress, LocalTime, RotationInterval,
    size, file, lastRotationTime, millCh, startMill,
    millFiles, dir, now, ret, pre,
    mu, callers, sched, gz

cfgVars == <<MaxSize, MaxAge, MaxBackups, Compress, LocalTime, RotationInterval>>
logVars == <<size, file, lastRotationTime, millCh, startMill>>
bgVars == <<mu, callers, sched, gz>>
vars == <<cfgVars, logVars, millFiles, dir, now, ret, pre, bgVars>>

\* ------------------------------------------------------------ file system
Put(d, n, c) == [x \in (DOMAIN d) \cup {n} |-> IF x = n THEN c ELSE d[x]]
Del(d, n) == [x \in (DOMAIN d) \ {n} |-> d[x]]
Rename(d, a, b) == Put(Del(d, a), b, d[a])
Bytes(k, b) == [i \in 1..k |-> b]
EmptyDir == [x \in {} |-> <<>>]
\* os.Mkdir and DirEntry.IsDir
Mkdir(d, n) == Put(d, n, <<DirMark>>)
IsDir(d, n) == n \in DOMAIN d /\ d[n] = <<DirMark>>

\* ------------------------------------------------------------------ names
\* l.filename(): the base name "foobar.log" as <<name, ext>>
filename == <<"foobar", ".log">>

\* filepath.Ext and the part before it
Ext(name) == <<name[Len(name)]>>
Stem(name) == SubSeq(name, 1, Len(name) - 1)

\* t.Format(backupTimeFormat): millisecond resolution, no zone in the text
Format(t) == ToString(t \div TicksPerMilli)

\* t.UTC() unless local: the wall clock reading that gets formatted
InZone(t, local) == IF local THEN t + ZoneOffset ELSE t

backupName(name, local, t) ==
    Stem(name) \o <<"-", Format(InZone(t, local))>> \o Ext(name)

prefixAndExt == [prefix |-> Stem(filename) \o <<"-">>, ext |-> Ext(filename)]

\* time.Parse(backupTimeFormat, ts): the text must be one timestamp, which
\* is read as a UTC time
LastInstant == MaxTime + DayTicks
Stamps == 0..((LastInstant + ZoneOffset) \div TicksPerMilli)
Parse(ts) ==
    IF Len(ts) = 1 /\ \E i \in Stamps : ToString(i) = ts[1]
    THEN [ok |-> TRUE,
          t |-> TicksPerMilli * (CHOOSE i \in Stamps : ToString(i) = ts[1])]
    ELSE [ok |-> FALSE, t |-> ZeroTime]

HasPrefix(name, prefix) ==
    Len(name) >= Len(prefix) /\ SubSeq(name, 1, Len(prefix)) = prefix
HasSuffix(name, suffix) ==
    /\ Len(name) >= Len(suffix)
    /\ SubSeq(name, Len(name) - Len(suffix) + 1, Len(name)) = suffix
\* mutant: the suffix stays on the name
KeepSuffix(name, suffix) == name

TrimSuffix(name, suffix) ==
    IF HasSuffix(name, suffix)
    THEN SubSeq(name, 1, Len(name) - Len(suffix))
    ELSE name

\* mutant: the extension is cut off without being looked at
timeFromNameAnyExt(name, prefix, ext) ==
    IF ~HasPrefix(name, prefix) THEN [ok |-> FALSE, t |-> ZeroTime]
    ELSE IF Len(name) < Len(prefix) + Len(ext)
         THEN [ok |-> FALSE, t |-> ZeroTime]
         ELSE Parse(SubSeq(name, Len(prefix) + 1, Len(name) - Len(ext)))

timeFromName(name, prefix, ext) ==
    IF ~HasPrefix(name, prefix) THEN [ok |-> FALSE, t |-> ZeroTime]
    ELSE IF ~HasSuffix(name, ext) THEN [ok |-> FALSE, t |-> ZeroTime]
    ELSE Parse(SubSeq(name, Len(prefix) + 1, Len(name) - Len(ext)))

\* ----------------------------------------------------------------- logger
max == IF MaxSize = 0 THEN defaultMaxSize * megabyte ELSE MaxSize * megabyte

\* time.Since(t) for the clock reading c; the zero time is infinitely old
Since(t, c) == IF t = ZeroTime THEN c + MaxTime + Interval + 1 ELSE c - t

Fail(s, e) == [s EXCEPT !.err = e]

\* mutant: closing a logger that holds no file is an error
closeStrict(s, F) ==
    IF s.file = Nil THEN Fail(s, "close")
    ELSE [s EXCEPT !.file = Nil, !.err = IF F = "close" THEN "close" ELSE NoErr]

close(s, F) ==
    IF s.file = Nil THEN s
    ELSE [s EXCEPT !.file = Nil, !.err = IF F = "close" THEN "close" ELSE NoErr]

\* the state of the channel l.millCh: nil until mill makes it, open from
\* then on (no statement of the source closes it, so the goroutine that
\* ranges over it never leaves its loop)
millChState(s) == IF s.startMill THEN "open" ELSE "nil"

\* mutant: the notification is never sent
millSilent(s) == [s EXCEPT !.startMill = TRUE]

\* mutant: the notification is queued however many are pending
millQueuesAll(s) == [s EXCEPT !.startMill = TRUE, !.millCh = @ + 1]

\* mutant: the notification is sent but the goroutine never started
millNoStart(s) == [s EXCEPT !.millCh = millChCap]

\* mutant: only the call that starts the goroutine sends a notification
millOnce(s) ==
    [s EXCEPT !.startMill = TRUE,
              !.millCh = IF s.startMill THEN @ ELSE millChCap]

mill(s) ==
    [s EXCEPT !.startMill = TRUE,
              !.millCh = IF @ < millChCap THEN @ + 1 ELSE @]

\* mutant: the new live file is opened without resetting the size counter
openNewKeepsSize(s, F, t) ==
    IF F = "mkdir" THEN Fail(s, "mkdir")
    ELSE
      LET statOk == F # "stat" /\ filename \in DOMAIN s.dir
          newname == backupName(filename, LocalTime, t)
          moved == IF statOk
                   THEN [s EXCEPT !.dir = Rename(@, filename, newname),
                                  !.made = Append(@, newname)]
                   ELSE s
      IN  IF statOk /\ (F = "rename" \/ IsDir(s.dir, newname))
          THEN Fail(s, "rename")
          ELSE IF F = "open" THEN Fail(moved, "open")
          ELSE [moved EXCEPT !.dir = Put(@, filename, <<>>),
                             !.file = Open]

openNew(s, F, t) ==
    IF F = "mkdir" THEN Fail(s, "mkdir")
    ELSE
      LET statOk == F # "stat" /\ filename \in DOMAIN s.dir
          newname == backupName(filename, LocalTime, t)
          moved == IF statOk
                   THEN [s EXCEPT !.dir = Rename(@, filename, newname),
                                  !.made = Append(@, newname)]
                   ELSE s
      IN  IF statOk /\ (F = "rename" \/ IsDir(s.dir, newname))
          THEN Fail(s, "rename")
          ELSE IF F = "open" THEN Fail(moved, "open")
          ELSE [moved EXCEPT !.dir = Put(@, filename, <<>>),
                             !.file = Open,
                             !.size = 0]

\* mutant: a rotation that cannot open the new file keeps the old handle
rotateKeepsHandle(s, F, t) ==
    LET c == close(s, F)
    IN  IF c.err # NoErr THEN c
        ELSE LET o == openNew(c, F, t)
             IN  IF o.err # NoErr THEN [o EXCEPT !.file = s.file] ELSE mill(o)

rotate(s, F, t) ==
    LET c == close(s, F)
    IN  IF c.err # NoErr THEN c
        ELSE LET o == openNew(c, F, t)
             IN  IF o.err # NoErr THEN o ELSE mill(o)

\* the test openExistingOrNew makes on the size of the file it found
existingFull(s, writeLen) == Len(s.dir[filename]) + writeLen >= max

\* mutant: opening the file at the first write queues no mill cycle
openExistingOrNewNoMill(s, writeLen, F, t) ==
    IF F # "stat" /\ filename \notin DOMAIN s.dir THEN openNew(s, F, t)
    ELSE IF F = "stat" THEN Fail(s, "stat")
    ELSE IF existingFull(s, writeLen) THEN rotate(s, F, t)
    ELSE IF F = "append" THEN openNew(s, F, t)
    ELSE [s EXCEPT !.file = Open, !.size = Len(s.dir[filename])]

openExistingOrNew(s, writeLen, F, t) ==
    LET m == mill(s)
    IN  IF F # "stat" /\ filename \notin DOMAIN m.dir THEN openNew(m, F, t)
        ELSE IF F = "stat" THEN Fail(m, "stat")
        ELSE IF existingFull(m, writeLen) THEN rotate(m, F, t)
        ELSE IF F = "append" THEN openNew(m, F, t)
        ELSE [m EXCEPT !.file = Open, !.size = Len(m.dir[filename])]

\* mutant: a short write is reported as a complete one
fileWriteLies(s, p, F, k) ==
    LET n == IF F = "write" THEN k ELSE Len(p)
    IN  [s EXCEPT !.dir = Put(@, filename, @[filename] \o SubSeq(p, 1, n)),
                  !.size = @ + Len(p),
                  !.n = Len(p),
                  !.err = IF F = "write" THEN "write" ELSE NoErr]

\* mutant: the bytes are written at the start of the file, not at its end
fileWriteAtStart(s, p, F, k) ==
    LET n == IF F = "write" THEN k ELSE Len(p)
    IN  [s EXCEPT !.dir = Put(@, filename, SubSeq(p, 1, n) \o @[filename]),
                  !.size = @ + n,
                  !.n = n,
                  !.err = IF F = "write" THEN "write" ELSE NoErr]

\* l.file.Write(p): all of p, or with a failing file the first k bytes of it
fileWrite(s, p, F, k) ==
    LET n == IF F = "write" THEN k ELSE Len(p)
    IN  [s EXCEPT !.dir = Put(@, filename, @[filename] \o SubSeq(p, 1, n)),
                  !.size = @ + n,
                  !.n = n,
                  !.err = IF F = "write" THEN "write" ELSE NoErr]

\* mutant: the length test is off by one megabyte
tooLongLate(p) == Len(p) > max + megabyte

\* mutant: the size test lets the file grow one megabyte past the cap
sizeDueLate(s, p) == s.size + Len(p) > max + megabyte

\* mutant: the size test takes every write for an overflow, also right
\* after a rotation of the same call
sizeDueAlways(s, p) == TRUE

\* the three tests Write makes before it appends
tooLong(p) == Len(p) > max
intervalDue(s, t) ==
    RotationInterval > 0 /\ Since(s.lastRotationTime, t) >= RotationInterval
sizeDue(s, p) == s.size + Len(p) > max

\* mutant: the size test comes after the append, so the bytes that overflow
\* the cap are sealed into the backup together with the earlier content
WriteOpAppendFirst(s, p, F, k, t) ==
    IF tooLong(p) THEN Fail(s, "too_large")
    ELSE
      LET s1 == IF s.file = Nil
                THEN LET o == openExistingOrNew(s, Len(p), F, t)
                     IN  IF o.err # NoErr THEN o
                         ELSE [o EXCEPT !.lastRotationTime = t]
                ELSE s
          w == fileWrite(s1, p, F, k)
      IN  IF s1.err # NoErr THEN s1
          ELSE IF w.err # NoErr THEN w
          ELSE IF w.size > max
               THEN [rotate(w, F, t) EXCEPT !.n = w.n]
               ELSE w

\* Logger.Write up to its append: the length test, the opening of the live
\* file and the two rotation tests; err is set if Write returns here
WriteChecks(s, p, F, t) ==
    IF tooLong(p) THEN Fail(s, "too_large")
    ELSE
      LET s1 == IF s.file = Nil
                THEN LET o == openExistingOrNew(s, Len(p), F, t)
                     IN  IF o.err # NoErr THEN o
                         ELSE [o EXCEPT !.lastRotationTime = t]
                ELSE s
          s2 == IF intervalDue(s1, t)
                THEN LET r == rotate(s1, F, t)
                     IN  IF r.err # NoErr THEN r
                         ELSE [r EXCEPT !.lastRotationTime = t]
                ELSE s1
          s3 == IF sizeDue(s2, p) THEN rotate(s2, F, t) ELSE s2
      IN  IF s1.err # NoErr THEN s1
          ELSE IF s2.err # NoErr THEN s2
          ELSE s3

\* Logger.Write over the logger state s: the bytes p, the failing system
\* call F, the count k a failing append takes, the clock reading t
WriteOp(s, p, F, k, t) ==
    IF tooLong(p) THEN Fail(s, "too_large")
    ELSE
      LET s1 == IF s.file = Nil
                THEN LET o == openExistingOrNew(s, Len(p), F, t)
                     IN  IF o.err # NoErr THEN o
                         ELSE [o EXCEPT !.lastRotationTime = t]
                ELSE s
          s2 == IF intervalDue(s1, t)
                THEN LET r == rotate(s1, F, t)
                     IN  IF r.err # NoErr THEN r
                         ELSE [r EXCEPT !.lastRotationTime = t]
                ELSE s1
          s3 == IF sizeDue(s2, p) THEN rotate(s2, F, t) ELSE s2
      IN  IF s1.err # NoErr THEN s1
          ELSE IF s2.err # NoErr THEN s2
          ELSE IF s3.err # NoErr THEN s3
          ELSE fileWrite(s3, p, F, k)

\* ------------------------------------------------------------------- mill
\* mutant: the live file is listed among the backups
logInfosWithLive(d) ==
    LET pe == prefixAndExt
        plain(n) == timeFromName(n, pe.prefix, pe.ext)
        packed(n) == timeFromName(n, pe.prefix, pe.ext \o <<compressSuffix>>)
    IN  {[timestamp |-> IF plain(n).ok THEN plain(n).t
                        ELSE IF packed(n).ok THEN packed(n).t ELSE 0,
          name |-> n] : n \in {x \in DOMAIN d :
                                    /\ ~IsDir(d, x)
                                    /\ (plain(x).ok \/ packed(x).ok \/ x = filename)}}

\* the entries of the directory that parse as backups of filename
logInfos(d) ==
    LET pe == prefixAndExt
        plain(n) == timeFromName(n, pe.prefix, pe.ext)
        packed(n) == timeFromName(n, pe.prefix, pe.ext \o <<compressSuffix>>)
    IN  {[timestamp |-> IF plain(n).ok THEN plain(n).t ELSE packed(n).t,
          name |-> n] : n \in {x \in DOMAIN d :
                                    ~IsDir(d, x) /\ (plain(x).ok \/ packed(x).ok)}}

\* mutant: the listing is sorted oldest first
byFormatTimeOldestFirst(b) ==
    \A i \in 1..Len(b), j \in 1..Len(b) :
        i < j => ~(b[j].timestamp < b[i].timestamp)

\* byFormatTime: newest first; sort.Sort leaves equal timestamps in any order
byFormatTime(b) ==
    \A i \in 1..Len(b), j \in 1..Len(b) :
        i < j => ~(b[j].timestamp > b[i].timestamp)

\* every list oldLogFiles may return for the directory d
oldLogFiles(d) ==
    LET S == logInfos(d)
    IN  {b \in [1..Cardinality(S) -> S] :
            /\ \A x \in S : \E i \in 1..Cardinality(S) : b[i] = x
            /\ byFormatTime(b)}

gzip(c) == <<GzHeader>> \o c

\* mutant: the source stays after it was compressed
compressLogFileKeepSrc(d, src, dst) ==
    IF src \notin DOMAIN d \/ IsDir(d, dst) THEN d
    ELSE Put(d, dst, <<GzHeader>> \o d[src])

\* mutant: a backup that has a compressed counterpart is left alone
compressLogFileSkipsExisting(d, src, dst) ==
    IF src \notin DOMAIN d \/ dst \in DOMAIN d THEN d
    ELSE Del(Put(d, dst, gzip(d[src])), src)

\* compressLogFile(src, dst) with every system call succeeding
compressLogFile(d, src, dst) ==
    IF src \notin DOMAIN d \/ IsDir(d, dst) THEN d
    ELSE Del(Put(d, dst, gzip(d[src])), src)

RECURSIVE compressAll(_, _)
compressAll(d, fs) ==
    IF fs = <<>> THEN d
    ELSE compressAll(
             compressLogFile(d, Head(fs).name,
                             Head(fs).name \o <<compressSuffix>>),
             Tail(fs))

RECURSIVE SelectSeq2(_, _, _)
\* the elements of fs, in order, whose index satisfies keep
SelectSeq2(fs, keep, i) ==
    IF i > Len(fs) THEN <<>>
    ELSE (IF keep[i] THEN <<fs[i]>> ELSE <<>>) \o SelectSeq2(fs, keep, i + 1)

\* one cycle of the mill over the listing files, at clock reading t
millRunOnce(d, files, t) ==
    IF MaxBackups = 0 /\ MaxAge = 0 /\ ~Compress THEN d
    ELSE
      LET preserved(i) ==
              {TrimSuffix(files[j].name, <<compressSuffix>>) : j \in 1..i}
          byCount == MaxBackups > 0 /\ MaxBackups < Len(files)
          over == [i \in 1..Len(files) |->
                      byCount /\ Cardinality(preserved(i)) > MaxBackups]
          kept1 == SelectSeq2(files, [i \in 1..Len(files) |-> ~over[i]], 1)
          cutoff == t - DayTicks * MaxAge
          old == [i \in 1..Len(kept1) |->
                      MaxAge > 0 /\ kept1[i].timestamp < cutoff]
          kept2 == SelectSeq2(kept1, [i \in 1..Len(kept1) |-> ~old[i]], 1)
          remove == {files[i].name : i \in {j \in 1..Len(files) : over[j]}}
                    \cup {kept1[i].name : i \in {j \in 1..Len(kept1) : old[j]}}
          compress == IF Compress
                      THEN SelectSeq2(kept2,
                               [i \in 1..Len(kept2) |->
                                   ~HasSuffix(kept2[i].name, <<compressSuffix>>)],
                               1)
                      ELSE <<>>
          removed == [n \in (DOMAIN d) \ remove |-> d[n]]
      IN  compressAll(removed, compress)

\* ------------------------------------------------------------------ state
Cur == [file |-> file, size |-> size, lastRotationTime |-> lastRotationTime,
        millCh |-> millCh, startMill |-> startMill, dir |-> dir,
        made |-> <<>>, n |-> 0, err |-> NoErr]

Snapshot == [file |-> file, size |-> size, lastRotationTime |-> lastRotationTime,
             millCh |-> millCh, startMill |-> startMill, dir |-> dir, now |-> now]

NoCall == [op |-> "none", p |-> <<>>, F |-> "none", n |-> 0, err |-> NoErr,
           made |-> <<>>]

NoPre == [file |-> Nil, size |-> 0, lastRotationTime |-> ZeroTime,
          millCh |-> 0, startMill |-> FALSE, dir |-> EmptyDir, now |-> 0]

\* the mutex l.mu: the caller that holds it, or Unlocked
Unlocked == 0
\* the goroutines that call the logger concurrently
Threads == {1, 2}
\* a caller that is not inside a call of the logger
Out == [at |-> "out", op |-> "none", p |-> <<>>, n |-> 0, err |-> NoErr,
        made |-> <<>>, seen |-> <<>>]
\* no scheduler goroutine
NoSched == [on |-> FALSE, next |-> 0, quit |-> FALSE, closed |-> FALSE,
            failed |-> FALSE]
\* no compression in hand
NoGz == [pc |-> 0, src |-> <<>>, dst |-> <<>>, orig |-> <<>>,
         from |-> EmptyDir, had |-> FALSE, err |-> NoErr, failed |-> <<>>]

\* one caller at a time, no scheduler, no compression in steps
NoBackground ==
    /\ mu = Unlocked
    /\ callers = [t \in Threads |-> Out]
    /\ sched = NoSched
    /\ gz = NoGz

Becomes(s) ==
    /\ file' = s.file
    /\ size' = s.size
    /\ lastRotationTime' = s.lastRotationTime
    /\ millCh' = s.millCh
    /\ startMill' = s.startMill
    /\ dir' = s.dir

Returns(op, p, F, s) ==
    /\ ret' = [op |-> op, p |-> p, F |-> F, n |-> s.n, err |-> s.err,
               made |-> s.made]
    /\ pre' = Snapshot

\* ---------------------------------------------------------------- actions
Payloads == {Bytes(k, NewByte) : k \in 0..(CapMB * megabyte + 1)}
Faults == {"mkdir", "stat", "rename", "open", "append", "close", "write"}

Idle == ret.op = "none"

Write(p, F, k) ==
    /\ Idle
    /\ Becomes(WriteOp(Cur, p, F, k, now))
    /\ Returns("Write", p, F, WriteOp(Cur, p, F, k, now))
    /\ UNCHANGED <<bgVars, cfgVars, millFiles, now>>

Rotate(F) ==
    /\ Idle
    /\ Becomes(rotate(Cur, F, now))
    /\ Returns("Rotate", <<>>, F, rotate(Cur, F, now))
    /\ UNCHANGED <<bgVars, cfgVars, millFiles, now>>

Close(F) ==
    /\ Idle
    /\ Becomes(close(Cur, F))
    /\ Returns("Close", <<>>, F, close(Cur, F))
    /\ UNCHANGED <<bgVars, cfgVars, millFiles, now>>

\* the call returns to its caller, which may then make the next call
Return ==
    /\ ~Idle
    /\ ret' = NoCall
    /\ pre' = NoPre
    /\ UNCHANGED <<bgVars, cfgVars, logVars, millFiles, dir, now>>

\* the wall clock advances
Tick ==
    /\ Idle
    /\ now < MaxTime
    /\ now' = now + 1
    /\ ret' = NoCall
    /\ pre' = NoPre
    /\ UNCHANGED <<bgVars, cfgVars, logVars, millFiles, dir>>

\* the clock jumps a day ahead, once
DayPasses ==
    /\ Idle
    /\ now <= MaxTime
    /\ now' = now + DayTicks
    /\ ret' = NoCall
    /\ pre' = NoPre
    /\ UNCHANGED <<bgVars, cfgVars, logVars, millFiles, dir>>

\* the mill goroutine has no cycle in hand
NoFiles == [on |-> FALSE, files |-> <<>>]

\* the mill goroutine takes the pending notification and begins a cycle:
\* with no policy configured the cycle is over at once, otherwise the
\* goroutine now holds its listing of the directory
millRun ==
    /\ Idle
    /\ startMill
    /\ millCh > 0
    /\ ~millFiles.on
    /\ millCh' = millCh - 1
    /\ IF MaxBackups = 0 /\ MaxAge = 0 /\ ~Compress
       THEN millFiles' = NoFiles
       ELSE \E files \in oldLogFiles(dir) :
               millFiles' = [on |-> TRUE, files |-> files]
    /\ ret' = NoCall
    /\ pre' = NoPre
    /\ UNCHANGED <<bgVars, cfgVars, size, file, lastRotationTime, startMill, dir, now>>

\* the mill goroutine finishes its cycle: it removes and compresses by the
\* listing it holds, every system call succeeding.  ret.made records the
\* names of the listing, pre the directory the removals found.
millApply ==
    /\ Idle
    /\ millFiles.on
    /\ dir' = millRunOnce(dir, millFiles.files, now)
    /\ millFiles' = NoFiles
    /\ ret' = [NoCall EXCEPT !.op = "mill",
                             !.made = [i \in 1..Len(millFiles.files) |->
                                          millFiles.files[i].name]]
    /\ pre' = Snapshot
    /\ UNCHANGED <<bgVars, cfgVars, logVars, now>>

InitDirs ==
    {EmptyDir} \cup
    {Put(EmptyDir, filename, Bytes(k, OldByte)) : k \in 0..(CapMB * megabyte + 1)}

Init ==
    /\ MaxSize = CapMB
    /\ MaxAge = 0
    /\ MaxBackups = 0
    /\ Compress = FALSE
    /\ LocalTime = FALSE
    /\ RotationInterval \in {0, Interval}
    /\ size = 0
    /\ file = Nil
    /\ lastRotationTime = ZeroTime
    /\ millCh = 0
    /\ startMill = FALSE
    /\ millFiles = NoFiles
    /\ dir \in InitDirs
    /\ now = 0
    /\ ret = NoCall
    /\ pre = NoPre
    /\ NoBackground

\* every system call succeeds
Next ==
    \/ \E p \in Payloads : Write(p, "none", 0)
    \/ Rotate("none")
    \/ Close("none")
    \/ Return
    \/ Tick
    \/ millRun

Spec == Init /\ [][Next]_vars

\* system calls may fail: one failing call kind per handler call
NextFault ==
    \/ \E p \in Payloads, F \in Faults \cup {"none"} :
          \E k \in 0..(IF F = "write" /\ Len(p) > 0 THEN Len(p) - 1 ELSE 0) :
             Write(p, F, k)
    \/ \E F \in Faults \cup {"none"} : Rotate(F)
    \/ \E F \in {"none", "close"} : Close(F)
    \/ Return
    \/ Tick
    \/ millRun

SpecFault == Init /\ [][NextFault]_vars

\* ------------------------------------------------------------------ codec
Reasons == {"size", "time"}
Instants == 0..LastInstant

\* backupName names the backup of a rotation at the clock reading now; it
\* has no parameter for the reason r its caller has in mind (ret.p)
Encode(r) ==
    /\ ret.op = "none"
    /\ ret' = [NoCall EXCEPT !.op = "backupName",
                             !.p = <<r>>,
                             !.made = <<backupName(filename, LocalTime, now)>>]
    /\ UNCHANGED <<bgVars, cfgVars, logVars, millFiles, dir, now, pre>>

\* millRunOnce appends compressSuffix to the name of the file it compresses
Suffixed ==
    /\ ret.op = "backupName"
    /\ ~HasSuffix(ret.made[1], <<compressSuffix>>)
    /\ ret' = [ret EXCEPT !.made = <<@[1] \o <<compressSuffix>>>>]
    /\ UNCHANGED <<bgVars, cfgVars, logVars, millFiles, dir, now, pre>>

\* timeFromName reads the name back, the way oldLogFiles calls it: with the
\* extension, and failing that with the extension and compressSuffix
Decode ==
    /\ ret.op = "backupName"
    /\ LET pe == prefixAndExt
           plain == timeFromName(ret.made[1], pe.prefix, pe.ext)
           packed == timeFromName(ret.made[1], pe.prefix,
                                  pe.ext \o <<compressSuffix>>)
           got == IF plain.ok THEN plain ELSE packed
       IN  ret' = [ret EXCEPT !.op = "timeFromName",
                              !.n = got.t,
                              !.err = IF got.ok THEN NoErr ELSE "parse"]
    /\ UNCHANGED <<bgVars, cfgVars, logVars, millFiles, dir, now, pre>>

InitCodec ==
    /\ MaxSize = CapMB
    /\ MaxAge = 0
    /\ MaxBackups = 0
    /\ Compress = FALSE
    /\ LocalTime \in BOOLEAN
    /\ RotationInterval = 0
    /\ size = 0
    /\ file = Nil
    /\ lastRotationTime = ZeroTime
    /\ millCh = 0
    /\ startMill = FALSE
    /\ millFiles = NoFiles
    /\ dir = EmptyDir
    /\ now \in Instants
    /\ ret = NoCall
    /\ pre = NoPre
    /\ NoBackground

NextCodec ==
    \/ \E r \in Reasons : Encode(r)
    \/ Suffixed
    \/ Decode

SpecCodec == InitCodec /\ [][NextCodec]_vars

\* ------------------------------------------------- a directory with history
\* the name and the compressed name of the backup sealed at millisecond i
Sealed(i) == backupName(filename, FALSE, TicksPerMilli * i)
Packed(i) == Sealed(i) \o <<compressSuffix>>

\* entries that are no backups of filename: a name that extends the base
\* name, a wrong prefix, a wrong extension, a timestamp that does not
\* parse, and a directory named exactly like a backup
Unrelated ==
    Mkdir(
        Put(Put(Put(Put(EmptyDir,
            filename \o <<".foo">>, <<OldByte>>),
            <<"other", "-", Format(0), ".log">>, <<OldByte>>),
            <<"foobar", "-", Format(0), ".txt">>, <<OldByte>>),
            <<"foobar", "-", Format(0), "-", "size", ".log">>, <<OldByte>>),
        backupName(filename, FALSE, LastInstant))

\* what an earlier run may have left: backups of the first two
\* milliseconds, plain, compressed, or both (the compressed one then half
\* written)
Leftovers ==
    {[n \in S |-> IF HasSuffix(n, <<compressSuffix>>)
                  THEN <<GzHeader>> ELSE <<OldByte>>] :
        S \in {{},
               {Sealed(0), Sealed(1)},
               {Sealed(0), Packed(0)},
               {Packed(0), Sealed(1)},
               {Sealed(0), Sealed(1), Packed(1)},
               {Sealed(0), Packed(0), Sealed(1), Packed(1)}}}

Merge(a, b) == [n \in (DOMAIN a) \cup (DOMAIN b) |->
                   IF n \in DOMAIN a THEN a[n] ELSE b[n]]

MillDirs ==
    {Merge(Put(Unrelated, filename, <<OldByte>>), l) : l \in Leftovers}

InitMill ==
    /\ MaxSize = CapMB
    /\ MaxAge \in 0..1
    /\ MaxBackups \in 0..MaxKeep
    /\ Compress \in BOOLEAN
    /\ LocalTime \in BOOLEAN
    /\ RotationInterval = 0
    /\ size = 0
    /\ file = Nil
    /\ lastRotationTime = ZeroTime
    /\ millCh = 0
    /\ startMill = FALSE
    /\ millFiles = NoFiles
    /\ dir \in MillDirs
    /\ now = 0
    /\ ret = NoCall
    /\ pre = NoPre
    /\ NoBackground

\* writes that fill the live file, so that each of them rotates, the clock
\* advancing by ticks and by days, and the mill goroutine; every system
\* call succeeds
NextMill ==
    \/ Write(Bytes(CapMB * megabyte, NewByte), "none", 0)
    \/ Return
    \/ Tick
    \/ DayPasses
    \/ millRun
    \/ millApply

SpecMill == InitMill /\ [][NextMill]_vars

\* The mill goroutine under the scheduling the Go runtime gives: a call that
\* has begun returns, and the goroutine, which never takes the logger's
\* mutex, runs again and again whenever it is runnable; calls of the logger
\* may come between its steps but cannot hold it up for ever.  One logger
\* over an existing live file, with and without a count cap.
InitFair ==
    /\ MaxSize = CapMB
    /\ MaxAge = 0
    /\ MaxBackups \in {0, MaxKeep}
    /\ Compress = FALSE
    /\ LocalTime = FALSE
    /\ RotationInterval = 0
    /\ size = 0
    /\ file = Nil
    /\ lastRotationTime = ZeroTime
    /\ millCh = 0
    /\ startMill = FALSE
    /\ millFiles = NoFiles
    /\ dir = Put(EmptyDir, filename, <<OldByte>>)
    /\ now = 0
    /\ ret = NoCall
    /\ pre = NoPre
    /\ NoBackground

NextFair ==
    \/ Write(Bytes(CapMB * megabyte, NewByte), "none", 0)
    \/ Return
    \/ Tick
    \/ millRun
    \/ millApply

SpecMillFair ==
    /\ InitFair
    /\ [][NextFair]_vars
    /\ WF_vars(Return)
    /\ SF_vars(millRun)
    /\ SF_vars(millApply)

\* a logger resumes over the directory of an earlier run with writes of one
\* byte: the first of them opens the existing live file and seals nothing
NextResume ==
    \/ Write(Bytes(1, NewByte), "none", 0)
    \/ Return
    \/ DayPasses
    \/ millRun
    \/ millApply

SpecResume == InitMill /\ [][NextResume]_vars

\* -------------------------------------------------------------- the mutex
\* Two goroutines call Write, Rotate and Close of one logger. A call is
\* the arrival at l.mu.Lock(), the acquisition, the body and the deferred
\* Unlock; the body of Write is two steps, its tests and its append, so
\* that another goroutine may be scheduled between the two.

\* mutant: Lock returns whether or not the mutex is held
muFreeAlways(m) == TRUE

\* sync.Mutex.Lock returns only when nobody holds the mutex
muFree(m) == m = Unlocked

LockPayloads == {Bytes(1, NewByte), Bytes(CapMB * megabyte, NewByte)}

\* what the tests of a Write have left for its append to rely on
Seen == [file |-> file, size |-> size, dir |-> dir]

\* the goroutine t calls op and arrives at l.mu.Lock()
Call(t, op, p) ==
    /\ callers[t].at = "out"
    /\ callers' = [callers EXCEPT ![t] = [Out EXCEPT !.at = "wait",
                                                     !.op = op, !.p = p]]
    /\ UNCHANGED <<cfgVars, logVars, millFiles, dir, now, ret, pre,
                   mu, sched, gz>>

\* l.mu.Lock() returns
Lock(t) ==
    /\ callers[t].at = "wait"
    /\ muFree(mu)
    /\ mu' = t
    /\ callers' = [callers EXCEPT ![t].at = "in"]
    /\ UNCHANGED <<cfgVars, logVars, millFiles, dir, now, ret, pre, sched, gz>>

\* what the body of the call c makes of the logger state s at the clock
\* reading t: Rotate and Close whole, Write up to its append
bodyOf(c, s, t) ==
    CASE c.op = "Write" -> WriteChecks(s, c.p, "none", t)
      [] c.op = "Rotate" -> rotate(s, "none", t)
      [] OTHER -> close(s, "none")

\* the caller c after its body left the logger state r: a Write whose
\* tests returned no error goes on to its append
afterBody(c, r) ==
    [c EXCEPT !.at = IF c.op = "Write" /\ r.err = NoErr
                     THEN "checked" ELSE "done",
              !.err = r.err,
              !.made = r.made,
              !.seen = IF c.op = "Write" /\ r.err = NoErr
                       THEN [file |-> r.file, size |-> r.size, dir |-> r.dir]
                       ELSE <<>>]

\* the body of Rotate or Close, or that of Write up to its append
Body(t) ==
    /\ callers[t].at = "in"
    /\ Becomes(bodyOf(callers[t], Cur, now))
    /\ callers' = [callers EXCEPT ![t] =
                      afterBody(callers[t], bodyOf(callers[t], Cur, now))]
    /\ UNCHANGED <<cfgVars, millFiles, now, ret, pre, mu, sched, gz>>

\* the append of Write: l.file.Write(p) and l.size += n
FileWrite(t) ==
    /\ callers[t].at = "checked"
    /\ LET c == callers[t]
           w == fileWrite([Cur EXCEPT !.made = c.made], c.p, "none", 0)
       IN  /\ Becomes(w)
           /\ callers' = [callers EXCEPT ![t] =
                  [c EXCEPT !.at = "done", !.n = w.n, !.err = w.err,
                            !.seen = <<>>]]
    /\ UNCHANGED <<cfgVars, millFiles, now, ret, pre, mu, sched, gz>>

\* the deferred l.mu.Unlock(), and the return to the caller
Unlock(t) ==
    /\ callers[t].at = "done"
    /\ mu' = Unlocked
    /\ callers' = [callers EXCEPT ![t] = Out]
    /\ UNCHANGED <<cfgVars, logVars, millFiles, dir, now, ret, pre, sched, gz>>

\* every interleaving of the two callers and the clock
NextLock ==
    \/ \E t \in Threads : \E p \in LockPayloads : Call(t, "Write", p)
    \/ \E t \in Threads : Call(t, "Rotate", <<>>)
    \/ \E t \in Threads : Call(t, "Close", <<>>)
    \/ \E t \in Threads : Lock(t)
    \/ \E t \in Threads : Body(t)
    \/ \E t \in Threads : FileWrite(t)
    \/ \E t \in Threads : Unlock(t)
    \/ Tick

SpecLock == Init /\ [][NextLock]_vars

\* ---------------------------------------------------------- the scheduler
\* src/timberjack.go has no scheduler: the goroutine that rotates at the
\* configured marks is modelled from the specification of the scheduled
\* rotation (its loop, its stop signal, its handling of a failed rotation).
\* What it calls, and the calls made around it, are those of the source:
\* rotate, Write and Close.
\*   sched.on      the loop is running
\*   sched.next    the slot it sleeps until
\*   sched.quit    the stop signal has been given
\*   sched.closed  Close has returned (history)
\*   sched.failed  a rotation of the loop has failed (history)

\* the marks recur every MarkEvery ticks
IsMark(t) == t % MarkEvery = 0

\* the earliest slot strictly after the instant t
NextSlot(t) == MarkEvery * ((t \div MarkEvery) + 1)

\* the loop is at its slot: its timer has fired
SlotDue == sched.on /\ sched.next <= now

\* mutant: the loop ends when its rotation fails
afterRotationStops(sc, err, t) ==
    [sc EXCEPT !.on = err = NoErr,
               !.next = NextSlot(t),
               !.failed = @ \/ err # NoErr]

\* the loop after its rotation returned err at the instant t: the error is
\* dropped and the next slot computed
afterRotation(sc, err, t) ==
    [sc EXCEPT !.next = NextSlot(t),
               !.failed = @ \/ err # NoErr]

\* the loop wakes: on the stop signal it ends and reports its exit; at its
\* slot it rotates under the mutex, F being the system call that fails
runScheduledRotations(F) ==
    /\ Idle
    /\ sched.on
    /\ sched.quit \/ SlotDue
    /\ IF sched.quit
       THEN /\ sched' = [sched EXCEPT !.on = FALSE]
            /\ ret' = NoCall
            /\ pre' = NoPre
            /\ UNCHANGED <<logVars, dir>>
       ELSE /\ Becomes(rotate(Cur, F, now))
            /\ Returns("sched", <<>>, F, rotate(Cur, F, now))
            /\ sched' = afterRotation(sched, rotate(Cur, F, now).err, now)
    /\ UNCHANGED <<cfgVars, millFiles, now, mu, callers, gz>>

\* Close, as the source has it: it closes the file and gives no stop signal
SchedClose ==
    /\ Idle
    /\ Becomes(close(Cur, "none"))
    /\ Returns("Close", <<>>, "none", close(Cur, "none"))
    /\ sched' = [sched EXCEPT !.closed = TRUE]
    /\ UNCHANGED <<cfgVars, millFiles, now, mu, callers, gz>>

\* the clock advances, the timer of the loop firing at its slot
Elapse ==
    /\ Idle
    /\ ~SlotDue
    /\ now < MarkEvery + MaxTime
    /\ now' = now + 1
    /\ ret' = NoCall
    /\ pre' = NoPre
    /\ UNCHANGED <<bgVars, cfgVars, logVars, millFiles, dir>>

SchedFaults == {"none", "rename", "open"}

InitSched ==
    /\ MaxSize = CapMB
    /\ MaxAge = 0
    /\ MaxBackups = 0
    /\ Compress = FALSE
    /\ LocalTime = FALSE
    /\ RotationInterval = 0
    /\ size = 0
    /\ file = Nil
    /\ lastRotationTime = ZeroTime
    /\ millCh = 0
    /\ startMill = FALSE
    /\ millFiles = NoFiles
    /\ dir \in {EmptyDir, Put(EmptyDir, filename, <<OldByte>>)}
    /\ now = 0
    /\ ret = NoCall
    /\ pre = NoPre
    /\ mu = Unlocked
    /\ callers = [t \in Threads |-> Out]
    /\ sched = [NoSched EXCEPT !.on = TRUE, !.next = NextSlot(0)]
    /\ gz = NoGz

NextSched ==
    \/ \E p \in LockPayloads : Write(p, "none", 0)
    \/ SchedClose
    \/ Return
    \/ Elapse
    \/ \E F \in SchedFaults : runScheduledRotations(F)

SpecSched == InitSched /\ [][NextSched]_vars

\* ------------------------------------------------- compression, by steps
\* compressLogFile as the sequence of its system calls, each of which may
\* fail, over a directory that the logger leaves alone meanwhile.
\*   gz.pc    the step to take next (0: no compression in hand)
\*   gz.src   the backup being compressed, gz.dst its compressed name
\*   gz.orig  the content of the backup when the compression began
\*   gz.from  the directory when the compression began
\*   gz.had   a file of the compressed name existed already
\*   gz.err   the step that failed in the compression that ended last
\*   gz.failed  the backup whose compression failed last (history)

\* mutant: the source is removed as soon as it has been copied
compressStepsRemoveEarly ==
    <<"open", "stat", "create", "copy", "remove", "gzclose", "gzfclose",
      "fclose">>

\* the system calls of compressLogFile, in the order of the source
compressSteps ==
    <<"open", "stat", "create", "copy", "gzclose", "gzfclose", "fclose",
      "remove">>

\* the compression ends with the error e
gzEnd(g, e) == [g EXCEPT !.pc = 0, !.err = e,
                        !.failed = IF e # NoErr THEN g.src ELSE @]

\* the compression goes on to its next step, or ends after the last
gzOn(g) == IF g.pc = Len(compressSteps) THEN gzEnd(g, NoErr)
           ELSE [g EXCEPT !.pc = @ + 1]

\* mutant: a compression that fails leaves its destination as it got it
gzAbortKeepsDst(g, d, step) == [gz |-> gzEnd(g, step), dir |-> d]

\* the deferred function of compressLogFile on an error: os.Remove(dst)
gzAbort(g, d, step) == [gz |-> gzEnd(g, step), dir |-> Del(d, g.dst)]

\* one step of compressLogFile over the directory d: fail says that the
\* system call of the step fails, k is how much of the compressed data has
\* reached the file when io.Copy returns
compressStep(g, d, fail, k) ==
    LET step == compressSteps[g.pc]
        cleanup == gzAbort(g, d, step)
        return == [gz |-> gzEnd(g, step), dir |-> d]
    IN  CASE step = "open" ->
               IF fail \/ g.src \notin DOMAIN d THEN return
               ELSE [gz |-> gzOn(g), dir |-> d]
          [] step = "stat" ->
               IF fail \/ g.src \notin DOMAIN d THEN return
               ELSE [gz |-> gzOn(g), dir |-> d]
          [] step = "create" ->
               IF fail \/ IsDir(d, g.dst) THEN return
               ELSE [gz |-> gzOn(g), dir |-> Put(d, g.dst, <<>>)]
          [] step = "copy" ->
               IF fail THEN cleanup
               ELSE [gz |-> gzOn(g),
                     dir |-> Put(d, g.dst, SubSeq(gzip(g.orig), 1, k))]
          [] step = "gzclose" ->
               IF fail THEN cleanup
               ELSE [gz |-> gzOn(g), dir |-> Put(d, g.dst, gzip(g.orig))]
          [] step = "remove" ->
               IF fail THEN cleanup
               ELSE [gz |-> gzOn(g), dir |-> Del(d, g.src)]
          [] OTHER ->
               IF fail THEN cleanup ELSE [gz |-> gzOn(g), dir |-> d]

\* the backups of the directory d that are not compressed
Uncompressed(d) ==
    {x.name : x \in {y \in logInfos(d) : ~HasSuffix(y.name, <<compressSuffix>>)}}

\* the mill calls compressLogFile(src, src + compressSuffix)
gzBegin(src) ==
    /\ gz.pc = 0
    /\ src \in Uncompressed(dir)
    /\ gz' = [pc |-> 1, src |-> src, dst |-> src \o <<compressSuffix>>,
              orig |-> dir[src], from |-> dir,
              had |-> (src \o <<compressSuffix>>) \in DOMAIN dir,
              err |-> NoErr, failed |-> gz.failed]
    /\ UNCHANGED <<cfgVars, logVars, millFiles, dir, now, ret, pre,
                   mu, callers, sched>>

\* the next system call of the compression, succeeding or failing
gzStep(fail, k) ==
    /\ gz.pc > 0
    /\ k < Len(gzip(gz.orig))
    /\ gz' = compressStep(gz, dir, fail, k).gz
    /\ dir' = compressStep(gz, dir, fail, k).dir
    /\ UNCHANGED <<cfgVars, logVars, millFiles, now, ret, pre,
                   mu, callers, sched>>

InitCompress ==
    /\ MaxSize = CapMB
    /\ MaxAge = 0
    /\ MaxBackups = 0
    /\ Compress = TRUE
    /\ LocalTime = FALSE
    /\ RotationInterval = 0
    /\ size = 0
    /\ file = Nil
    /\ lastRotationTime = ZeroTime
    /\ millCh = 0
    /\ startMill = FALSE
    /\ millFiles = NoFiles
    /\ dir \in MillDirs
    /\ now = 0
    /\ ret = NoCall
    /\ pre = NoPre
    /\ NoBackground

NextCompress ==
    \/ \E src \in DOMAIN dir : gzBegin(src)
    \/ \E fail \in BOOLEAN : \E k \in 0..(CapMB * megabyte) : gzStep(fail, k)

SpecCompress == InitCompress /\ [][NextCompress]_vars

\* ----------------------------------------------------------------- claims
HasLive(d) == filename \in DOMAIN d
Live(d) == d[filename]
IsSuffix(p, c) == Len(p) <= Len(c) /\ SubSeq(c, Len(c) - Len(p) + 1, Len(c)) = p

\* the file name carries the reason token r between timestamp and extension
HasReason(name, r) ==
    /\ Len(name) >= 4
    /\ name[Len(name) - 1] = r
    /\ name[Len(name) - 2] = "-"

\* a rotation time was on record when the call that just returned was made,
\* and the interval had elapsed since
WasIntervalDue ==
    /\ RotationInterval > 0
    /\ pre.lastRotationTime # ZeroTime
    /\ pre.now - pre.lastRotationTime >= RotationInterval

\* every file other than the live one is as it was, or is the sealed live file
BackupsIntact ==
    \A b \in (DOMAIN dir) \ {filename} :
        \/ b \in DOMAIN pre.dir /\ dir[b] = pre.dir[b]
        \/ HasLive(pre.dir) /\ dir[b] = Live(pre.dir)

\* the live file holds the bytes c on top of what it held, or c alone
LandedIn(c) ==
    /\ HasLive(dir)
    /\ \/ Live(dir) = c
       \/ HasLive(pre.dir) /\ Live(dir) = Live(pre.dir) \o c

\* C1: a Write longer than the size cap returns (0, error), attempts no
\* rotation, touches no file and leaves handle, size counter,
\* lastRotationTime and the mill's channel as they were, in every state.
C1_OversizeWriteRejected ==
    (ret.op = "Write" /\ Len(ret.p) > max) =>
        /\ ret.n = 0
        /\ ret.err = "too_large"
        /\ ret.made = <<>>
        /\ dir = pre.dir
        /\ file = pre.file
        /\ size = pre.size
        /\ lastRotationTime = pre.lastRotationTime
        /\ millCh = pre.millCh
        /\ startMill = pre.startMill

C1_Witness ==
    /\ ret.op = "Write"
    /\ Len(ret.p) > max
    /\ ret.err = "too_large"
    /\ pre.file = Open
    /\ Len(Live(dir)) > 0

\* C2: a Write that seals a backup and succeeds leaves the backup with
\* exactly the content the live file had before the call and the live file
\* with exactly the bytes of this write; no Write, whatever its outcome,
\* puts any of its bytes into a file other than the live one.
C2_RotationAtomic ==
    ret.op = "Write" =>
        /\ BackupsIntact
        /\ (ret.err = NoErr /\ ret.made # <<>>) =>
              /\ Len(ret.made) = 1
              /\ HasLive(pre.dir)
              /\ ret.made[1] \in DOMAIN dir
              /\ dir[ret.made[1]] = Live(pre.dir)
              /\ HasLive(dir)
              /\ Live(dir) = ret.p

C2_Witness ==
    /\ ret.op = "Write"
    /\ ret.err = NoErr
    /\ ret.made # <<>>
    /\ pre.file = Open
    /\ Len(Live(pre.dir)) > 0
    /\ Len(ret.p) > 0

\* C3: after a successful Write of at most the size cap, from any state,
\* the live file exists and its content ends with exactly the data written.
C3_LiveEndsWithData ==
    (ret.op = "Write" /\ ret.err = NoErr /\ Len(ret.p) <= max) =>
        /\ ret.n = Len(ret.p)
        /\ HasLive(dir)
        /\ IsSuffix(ret.p, Live(dir))
        /\ LandedIn(ret.p)

\* a successful Write after Close, appended to what was written before
C3_Witness ==
    /\ ret.op = "Write"
    /\ ret.err = NoErr
    /\ pre.file = Nil
    /\ pre.startMill
    /\ Len(ret.p) > 0
    /\ Len(Live(dir)) > Len(ret.p)
    /\ Live(dir)[1] = NewByte

\* C4 as stated: a Write returns all of its length and no error, or 0 and
\* an error; it never reports a partial write.
C4_AllOrNothing ==
    ret.op = "Write" =>
        \/ ret.n = Len(ret.p) /\ ret.err = NoErr
        \/ ret.n = 0 /\ ret.err # NoErr

\* C4 as amended: a Write returns all of its length and no error after the
\* bytes landed in one file incarnation; or an error raised before the
\* append, with n = 0 and none of its bytes in any file; or the error of the
\* append itself, with n the count of bytes the file took (short of the
\* length), those n bytes in the live file and counted in the size.
C4_WriteResult ==
    ret.op = "Write" =>
        /\ BackupsIntact
        /\ \/ /\ ret.err = NoErr
              /\ ret.n = Len(ret.p)
              /\ LandedIn(ret.p)
           \/ /\ ret.err \notin {NoErr, "write"}
              /\ ret.n = 0
              /\ HasLive(dir) => LandedIn(<<>>)
           \/ /\ ret.err = "write"
              /\ ret.n >= 0
              /\ ret.n < Len(ret.p) \/ Len(ret.p) = 0
              /\ LandedIn(SubSeq(ret.p, 1, ret.n))
              /\ size = Len(Live(dir))

C4_Witness ==
    /\ ret.op = "Write"
    /\ ret.err = "write"
    /\ ret.n > 0
    /\ ret.n < Len(ret.p)

\* C5: whenever the logger holds an open handle, the live file and the size
\* counter are at most the size cap; a successful Write that would push the
\* live file over the cap lands in a fresh live file instead.
C5_SizeCap ==
    /\ file = Open =>
          /\ HasLive(dir)
          /\ Len(Live(dir)) <= max
          /\ size <= max
    /\ ( /\ ret.op = "Write"
         /\ ret.err = NoErr
         /\ HasLive(pre.dir)
         /\ Len(Live(pre.dir)) + Len(ret.p) > max ) =>
          Live(dir) = ret.p

C5_Witness ==
    /\ ret.op = "Write"
    /\ ret.err = NoErr
    /\ pre.file = Open
    /\ pre.size + Len(ret.p) > max
    /\ ret.made # <<>>
    /\ Len(Live(dir)) = max

\* C6 as stated: with an interval configured, a Write in the Open state
\* made once the interval has elapsed seals the earlier content in a backup
\* named with reason "time" and lands alone in the new live file; a Write
\* made before that and within the size cap rotates nothing.
C6_IntervalWrite ==
    ( /\ ret.op = "Write"
      /\ ret.err = NoErr
      /\ pre.file = Open
      /\ pre.lastRotationTime # ZeroTime
      /\ RotationInterval > 0 ) =>
        IF WasIntervalDue
        THEN /\ Len(ret.made) = 1
             /\ HasReason(ret.made[1], "time")
             /\ dir[ret.made[1]] = Live(pre.dir)
             /\ Live(dir) = ret.p
        ELSE pre.size + Len(ret.p) <= max => ret.made = <<>>

\* C7 as stated: a Write that finds the interval elapsed and the size cap
\* about to be exceeded seals a backup named with reason "time", not "size".
C7_IntervalBeforeSize ==
    ( /\ ret.op = "Write"
      /\ ret.err = NoErr
      /\ pre.file = Open
      /\ WasIntervalDue
      /\ pre.size + Len(ret.p) > max ) =>
        /\ Len(ret.made) = 1
        /\ HasReason(ret.made[1], "time")
        /\ ~HasReason(ret.made[1], "size")

\* C8 as stated: the first Write of a closed logger appends to an existing
\* file, adopting its size and rotating nothing, whenever size on disk plus
\* the length is at most the cap; it rotates only when the file is missing
\* or the append would go over the cap.
C8_FirstWriteReopens ==
    ( /\ ret.op = "Write"
      /\ ret.err = NoErr
      /\ pre.file = Nil
      /\ HasLive(pre.dir) ) =>
        IF Len(Live(pre.dir)) + Len(ret.p) <= max
        THEN /\ ret.made = <<>>
             /\ Live(dir) = Live(pre.dir) \o ret.p
             /\ size = Len(Live(pre.dir)) + Len(ret.p)
        ELSE /\ ret.made # <<>>
             /\ Live(dir) = ret.p

\* C9: a manual Rotate seals the whole live content in a backup, leaves an
\* empty live file open with size 0 and a mill cycle pending; on every
\* call, also when the live file is empty.
C9_ManualRotate ==
    ret.op = "Rotate" =>
        /\ ret.err = NoErr
        /\ file = Open
        /\ size = 0
        /\ HasLive(dir)
        /\ Live(dir) = <<>>
        /\ startMill
        /\ millCh = millChCap
        /\ HasLive(pre.dir) =>
              /\ Len(ret.made) = 1
              /\ ret.made[1] \in DOMAIN dir
              /\ dir[ret.made[1]] = Live(pre.dir)
        /\ \A b \in (DOMAIN dir) \ ({filename} \cup {ret.made[i] : i \in 1..Len(ret.made)}) :
              b \in DOMAIN pre.dir /\ dir[b] = pre.dir[b]

\* a Rotate of an empty live file right after another Rotate
C9_Witness ==
    /\ ret.op = "Rotate"
    /\ pre.file = Open
    /\ HasLive(pre.dir)
    /\ Live(pre.dir) = <<>>
    /\ pre.millCh = millChCap
    /\ ret.made # <<>>
    /\ dir[ret.made[1]] = <<>>

\* C10 as stated: the backup of a manual Rotate is named with reason "time"
\* when the interval had elapsed, and with reason "size" otherwise.
C10_ManualRotateReason ==
    (ret.op = "Rotate" /\ ret.err = NoErr /\ ret.made # <<>>) =>
        IF WasIntervalDue
        THEN HasReason(ret.made[1], "time")
        ELSE HasReason(ret.made[1], "size")

\* C11 as stated: every backup a rotation creates is named
\* prefix-<formatted instant>-<reason><ext> in the directory of the live
\* file: prefix and ext those of the base name, the instant the time of the
\* rotation (UTC unless LocalTime is set), the reason "size" or "time".
C11_BackupNamed ==
    ret.op \in {"Write", "Rotate"} =>
        \A i \in 1..Len(ret.made) :
            \E r \in {"size", "time"} :
                ret.made[i] =
                    Stem(filename)
                    \o <<"-", Format(InZone(pre.now, LocalTime)), "-", r>>
                    \o Ext(filename)

\* C12 as stated, for instants of whole milliseconds: reading back the name
\* backupName gives a rotation at the instant t, under either value of the
\* local-time flag and whatever the reason, returns exactly t and no error.
C12_RoundTrip ==
    (ret.op = "timeFromName" /\ now % TicksPerMilli = 0) =>
        /\ ret.err = NoErr
        /\ ret.n = now

\* ---- the mill: what a finished cycle found and left
IsPacked(n) == n[Len(n)] = compressSuffix
\* the name of the backup without the compression suffix, and with it
Logical(n) == IF IsPacked(n) THEN SubSeq(n, 1, Len(n) - 1) ELSE n
PackedName(n) == Logical(n) \o <<compressSuffix>>
\* the backups of filename in the directory d: plain files named
\* prefix-<timestamp><ext>, with or without the compression suffix
Backups(d) ==
    {n \in DOMAIN d :
        /\ d[n] # <<DirMark>>
        /\ Len(Logical(n)) = 4
        /\ SubSeq(Logical(n), 1, 2) = <<"foobar", "-">>
        /\ Logical(n)[4] = ".log"
        /\ \E i \in Stamps : Logical(n)[3] = ToString(i)}
\* the clock reading the name of a backup records
StampOf(n) ==
    TicksPerMilli * (CHOOSE i \in Stamps : Logical(n)[3] = ToString(i))
\* the instant of the rotation that gave the name, under the configured
\* LocalTime
InstantOf(n) == IF LocalTime THEN StampOf(n) - ZoneOffset ELSE StampOf(n)
Listed == {ret.made[i] : i \in 1..Len(ret.made)}
LogicalOf(S) == {Logical(n) : n \in S}
\* a mill cycle has just finished, and the directory it listed is the
\* directory its removals found
CycleDone == ret.op = "mill" /\ Listed = Backups(pre.dir)
\* the members of the set S of names that the count cap n keeps: those
\* with fewer than n logical backups newer than themselves
Newest(S, n) ==
    {a \in S :
        Cardinality({Logical(b) : b \in {c \in S : StampOf(c) > StampOf(a)}}) < n}

\* C13: with MaxBackups = N > 0 and no age limit, a mill cycle that follows
\* a rotation and finds M > N backups with distinct rotation instants
\* leaves exactly the N newest of them (compressed, with Compress set) and
\* nothing of the others.
C13_RetentionByCount ==
    ( /\ CycleDone
      /\ MaxBackups > 0
      /\ MaxAge = 0
      /\ Cardinality(Listed) > MaxBackups
      /\ \A a, b \in Listed : a # b => StampOf(a) # StampOf(b) ) =>
        /\ Cardinality(Backups(dir)) = MaxBackups
        /\ LogicalOf(Backups(dir)) = LogicalOf(Newest(Listed, MaxBackups))
        /\ \A n \in Listed \ Newest(Listed, MaxBackups) :
              n \notin DOMAIN dir /\ PackedName(n) \notin DOMAIN dir
        /\ ~Compress => \A n \in Backups(dir) : dir[n] = pre.dir[n]

\* three backups, one of them sealed in this run, cut down to the newest
C13_Witness ==
    /\ CycleDone
    /\ MaxBackups = 1
    /\ MaxAge = 0
    /\ ~Compress
    /\ Cardinality(Listed) = 3
    /\ \A a, b \in Listed : a # b => StampOf(a) # StampOf(b)
    /\ \E n \in Listed : pre.dir[n] = Bytes(CapMB * megabyte, NewByte)
    /\ Cardinality(Backups(dir)) = 1

\* C14: in retention by count a backup and its compressed counterpart are
\* one logical backup: a cycle keeps both or removes both (of a kept pair
\* the plain file may then be compressed), and the logical backups it
\* leaves are the MaxBackups newest, a pair taking one place among them.
C14_PairIsOneBackup ==
    (CycleDone /\ MaxBackups > 0 /\ MaxAge = 0) =>
        /\ \A n \in Listed :
              (~IsPacked(n) /\ PackedName(n) \in Listed) =>
                  \/ n \notin DOMAIN dir /\ PackedName(n) \notin DOMAIN dir
                  \/ /\ PackedName(n) \in DOMAIN dir
                     /\ n \in DOMAIN dir \/ Compress
        /\ LogicalOf(Backups(dir)) = LogicalOf(Newest(Listed, MaxBackups))
        /\ Cardinality(LogicalOf(Backups(dir))) =
              IF Cardinality(LogicalOf(Listed)) < MaxBackups
              THEN Cardinality(LogicalOf(Listed))
              ELSE MaxBackups

\* two pairs and a cap of one: the newer pair stays whole, the older pair
\* is gone whole
C14_Witness ==
    /\ CycleDone
    /\ MaxBackups = 1
    /\ MaxAge = 0
    /\ ~Compress
    /\ \E a, b \in Listed :
          /\ ~IsPacked(a) /\ PackedName(a) \in Listed
          /\ ~IsPacked(b) /\ PackedName(b) \in Listed
          /\ StampOf(a) < StampOf(b)
          /\ a \notin DOMAIN dir /\ PackedName(a) \notin DOMAIN dir
          /\ b \in DOMAIN dir /\ PackedName(b) \in DOMAIN dir

\* C15 as stated: with MaxAge = D > 0 a finished mill cycle has removed
\* every backup whose rotation instant is more than D days before the
\* current time, whatever the count cap would keep; a backup that is not
\* older than that is not removed by the age rule (it is there, plain or
\* compressed, when the count cap is off or not reached).
C15_RetentionByAge ==
    (CycleDone /\ MaxAge > 0) =>
        \A n \in Listed :
            IF InstantOf(n) < pre.now - MaxAge * DayTicks
            THEN n \notin DOMAIN dir
            ELSE (MaxBackups = 0 \/ Cardinality(Listed) <= MaxBackups) =>
                    n \in DOMAIN dir \/ PackedName(n) \in DOMAIN dir

\* C16: nothing the logger or the mill does touches an entry of the
\* directory that is no backup of filename: a name that only resembles the
\* pattern (extended base name, wrong prefix, wrong extension, timestamp
\* that does not parse) and a directory named exactly like a backup stay
\* as they were, and no compressed counterpart of them appears.
C16_UnrelatedUntouched ==
    \A u \in DOMAIN Unrelated :
        /\ u \in DOMAIN dir
        /\ dir[u] = Unrelated[u]
        /\ u \o <<compressSuffix>> \notin DOMAIN dir

\* a cycle that removed a backup and compressed another, at a time when a
\* rotation names its backup like the directory
C16_Witness ==
    /\ CycleDone
    /\ Compress
    /\ \E n \in Listed : n \notin DOMAIN dir /\ PackedName(n) \notin DOMAIN dir
    /\ \E n \in Listed :
          ~IsPacked(n) /\ n \notin DOMAIN dir /\ PackedName(n) \in DOMAIN dir
    /\ IsDir(dir, backupName(filename, LocalTime, now))

\* C17 as stated: with Compress set, after a finished mill cycle every
\* backup in the directory exists only as its compressed counterpart, which
\* unpacks to the content the backup had, the plain file being gone.
C17_AllCompressed ==
    (ret.op = "mill" /\ Compress) =>
        \A n \in Backups(dir) :
            /\ IsPacked(n)
            /\ Logical(n) \notin DOMAIN dir
            /\ Logical(n) \in DOMAIN pre.dir =>
                  dir[n] = <<GzHeader>> \o pre.dir[Logical(n)]

\* C17 as amended: with Compress set, after a finished mill cycle every
\* plain backup the cycle had in its listing is gone, and if the cycle kept
\* it, it exists as its compressed counterpart, which unpacks to the
\* content the plain file had when it was compressed; a backup that is
\* plain after the cycle was sealed after the listing was taken, and the
\* notification for the next cycle is pending.
C17_ListedCompressed ==
    (ret.op = "mill" /\ Compress) =>
        /\ \A n \in Listed :
              ~IsPacked(n) =>
                  /\ n \in DOMAIN pre.dir
                  /\ n \notin DOMAIN dir
                  /\ PackedName(n) \in DOMAIN dir =>
                        dir[PackedName(n)] = <<GzHeader>> \o pre.dir[n]
                  /\ PackedName(n) \notin DOMAIN dir =>
                        (MaxBackups > 0 \/ MaxAge > 0)
        /\ \A b \in Backups(dir) :
              ~IsPacked(b) => b \notin Listed /\ millCh = millChCap

\* a cycle that compressed a backup written by this run while a later
\* rotation's backup, sealed after the listing, stays plain
C17_Witness ==
    /\ ret.op = "mill"
    /\ Compress
    /\ \E n \in Listed :
          /\ ~IsPacked(n)
          /\ n \in DOMAIN pre.dir
          /\ pre.dir[n] = Bytes(CapMB * megabyte, NewByte)
          /\ n \notin DOMAIN dir
          /\ PackedName(n) \in DOMAIN dir
          /\ dir[PackedName(n)] = <<GzHeader>> \o pre.dir[n]
    /\ \E b \in Backups(dir) : ~IsPacked(b)

\* C18: Close is idempotent: a Close of a logger that holds no file (closed
\* before, or never written to) returns no error and changes nothing, a
\* Close whose file closes without error returns no error, and after every
\* Close the logger holds no file.  (The logger of this source has no stop
\* channel.)
C18_CloseIdempotent ==
    ret.op = "Close" =>
        /\ file = Nil
        /\ dir = pre.dir
        /\ (pre.file = Nil \/ ret.F = "none") => ret.err = NoErr
        /\ pre.file = Nil =>
              /\ size = pre.size
              /\ lastRotationTime = pre.lastRotationTime
              /\ millCh = pre.millCh
              /\ startMill = pre.startMill

\* the second Close of a logger that had written
C18_Witness ==
    /\ ret.op = "Close"
    /\ pre.file = Nil
    /\ pre.startMill
    /\ HasLive(dir)
    /\ Len(Live(dir)) > 0
    /\ Live(dir)[Len(Live(dir))] = NewByte
    /\ ret.err = NoErr

\* C19 as stated: a Write after Close whose bytes fit the live file
\* succeeds, lands all its bytes in the live file after the content
\* written before, and leaves the logger without a retained file handle.
C19_WriteAfterClose ==
    ( /\ ret.op = "Write"
      /\ pre.file = Nil
      /\ pre.startMill
      /\ HasLive(pre.dir)
      /\ Len(Live(pre.dir)) + Len(ret.p) < max ) =>
        /\ ret.err = NoErr
        /\ ret.n = Len(ret.p)
        /\ HasLive(dir)
        /\ Live(dir) = Live(pre.dir) \o ret.p
        /\ file = Nil

\* C20 as stated: when Close returns on a logger whose mill goroutine was
\* started, the mill's notification channel is closed (so that the
\* goroutine leaves its loop once the channel is drained).
C20_CloseStopsMill ==
    (ret.op = "Close" /\ pre.startMill) =>
        millChState(Cur) = "closed"

\* C21: a Write or Rotate in which making the directory, the rename or the
\* opening of the new file fails returns that error (Write with n = 0 and
\* none of its bytes in any file) and leaves the logger without a handle;
\* and a Write of at most the size cap that finds the logger without a
\* handle and meets no failing call succeeds: it opens the live file anew
\* and lands all its bytes at the end of it.
C21_RotationFailureRecovers ==
    /\ ( /\ ret.op \in {"Write", "Rotate"}
         /\ ret.F \in {"mkdir", "rename", "open"}
         /\ ret.err # NoErr
         /\ ret.err # "too_large" ) =>
          /\ ret.err = ret.F
          /\ ret.n = 0
          /\ file = Nil
          /\ BackupsIntact
          /\ HasLive(dir) => HasLive(pre.dir) /\ Live(dir) = Live(pre.dir)
    /\ ( /\ ret.op = "Write"
         /\ ret.F = "none"
         /\ pre.file = Nil
         /\ Len(ret.p) <= max ) =>
          /\ ret.err = NoErr
          /\ ret.n = Len(ret.p)
          /\ file = Open
          /\ HasLive(dir)
          /\ IsSuffix(ret.p, Live(dir))
          /\ size = Len(Live(dir))

\* a Write that succeeds after a rotation had renamed the live file and
\* then failed to open the new one
C21_Witness ==
    /\ ret.op = "Write"
    /\ ret.F = "none"
    /\ ret.err = NoErr
    /\ Len(ret.p) > 0
    /\ pre.file = Nil
    /\ pre.startMill
    /\ ~HasLive(pre.dir)
    /\ \E b \in DOMAIN pre.dir : Len(pre.dir[b]) > 0 /\ pre.dir[b][1] = NewByte

\* C23: the notification of the mill never holds up the write path: the
\* channel never holds more than one notification; a Write that rotated
\* or opened the live file returns with exactly one notification pending,
\* whether the channel was empty before (queued) or full (dropped), also
\* while a mill cycle is between its listing and its end.
C23_MillNeverBlocks ==
    /\ millCh <= millChCap
    /\ ( /\ ret.op \in {"Write", "Rotate"}
         /\ ret.err = NoErr
         /\ (ret.made # <<>> \/ pre.file = Nil) ) =>
          /\ startMill
          /\ millCh = millChCap

\* a rotating Write returned while a mill cycle was running and a
\* notification was already pending: its own notification was dropped
C23_Witness ==
    /\ ret.op = "Write"
    /\ ret.err = NoErr
    /\ ret.made # <<>>
    /\ millFiles.on
    /\ pre.millCh = millChCap
    /\ millCh = millChCap

\* C24: a rotation seals the live file under a name that no file of the
\* directory has yet, and every file that was in the directory besides the
\* live file is still there under its name with its content.
C24_BackupImmutable ==
    ( /\ ret.op \in {"Write", "Rotate"}
      /\ ret.made # <<>> ) =>
       /\ ret.made[1] \notin DOMAIN pre.dir
       /\ \A n \in DOMAIN pre.dir \ {filename} :
             n \in DOMAIN dir /\ dir[n] = pre.dir[n]

\* C28: a Write or Rotate that rotated and returned no error leaves the
\* size counter at the bytes appended since the rotation (none for Rotate)
\* and lastRotationTime at the instant of the call.
C28_RotationResetsSizeAndTime ==
    ( /\ ret.op \in {"Write", "Rotate"}
      /\ ret.made # <<>>
      /\ ret.err = NoErr ) =>
       /\ size = ret.n
       /\ lastRotationTime = pre.now

\* C29: whenever the logger holds an open handle, the live file exists and
\* the size counter is its length in bytes; in particular a call that
\* rotated leaves the counter at the bytes it appended to the new live
\* file, whatever the size of the backup it sealed.
C29_SizeIsLiveLength ==
    file = Open =>
       /\ HasLive(dir)
       /\ size = Len(Live(dir))
       /\ (ret.op \in {"Write", "Rotate"} /\ ret.made # <<>>) => size = ret.n

\* a Write that adopted the bytes of an existing live file and appended
\* its own, after an earlier rotation had sealed a backup of another size
C29_Witness ==
    /\ ret.op = "Write"
    /\ ret.err = NoErr
    /\ ret.made = <<>>
    /\ pre.file = Nil
    /\ file = Open
    /\ HasLive(pre.dir)
    /\ Len(Live(pre.dir)) > 0
    /\ ret.n > 0
    /\ size = Len(Live(pre.dir)) + ret.n
    /\ \E b \in DOMAIN dir \ {filename} : Len(dir[b]) # size

\* a caller that holds the mutex: between the return of Lock and Unlock
Inside(t) == callers[t].at \in {"in", "checked", "done"}

\* C22: under every interleaving of two goroutines calling Write, Rotate
\* and Close, at most one of them is inside its critical section, and it
\* is the holder of the mutex; while a Write is between its rotation tests
\* and its append, the handle, the size counter and the directory are as
\* its tests left them (no other call closed, renamed or reopened
\* anything); and a Write that returns no error has appended all its bytes
\* at the end of the live file, within the size cap.
C22_MutualExclusion ==
    /\ Cardinality({t \in Threads : Inside(t)}) <= 1
    /\ \A t \in Threads : Inside(t) => mu = t
    /\ \A t \in Threads : callers[t].at = "checked" => callers[t].seen = Seen
    /\ \A t \in Threads :
          ( /\ callers[t].at = "done"
            /\ callers[t].op = "Write"
            /\ callers[t].err = NoErr ) =>
             /\ callers[t].n = Len(callers[t].p)
             /\ file = Open
             /\ HasLive(dir)
             /\ IsSuffix(callers[t].p, Live(dir))
             /\ size = Len(Live(dir))
             /\ size <= max

\* a Write that rotated is between its tests and its append while the
\* other goroutine waits at Lock with a Rotate or a Close
C22_Witness ==
    \E t \in Threads, u \in Threads :
        /\ callers[t].at = "checked"
        /\ callers[t].made # <<>>
        /\ callers[u].at = "wait"
        /\ callers[u].op \in {"Rotate", "Close"}

\* C25: a rotation of the scheduler happens at a mark, seals the live file
\* as it was at that instant under a backup name with the reason "time",
\* and leaves an empty live file; a Write that finds the file open and
\* does not overflow the size cap rotates nothing.
C25_ScheduledRotation ==
    /\ (ret.op = "sched" /\ ret.err = NoErr) =>
          /\ IsMark(pre.now)
          /\ Live(dir) = <<>>
          /\ HasLive(pre.dir) =>
                /\ ret.made # <<>>
                /\ dir[ret.made[1]] = Live(pre.dir)
                /\ HasReason(ret.made[1], "time")
    /\ ( /\ ret.op = "Write"
         /\ ret.err = NoErr
         /\ pre.file = Open
         /\ pre.size + Len(ret.p) <= max ) => ret.made = <<>>

\* C26: when Close returns, the stop signal has been given and the loop of
\* the scheduler has ended; and no rotation of the scheduler happens once
\* Close has returned.
C26_CloseStopsScheduler ==
    /\ ret.op = "Close" => sched.quit /\ ~sched.on
    /\ ret.op = "sched" => ~sched.closed

CopyComplete == gz.dst \in DOMAIN dir /\ dir[gz.dst] = gzip(gz.orig)

\* C30: from the beginning of a compression on, through each of its steps
\* and after its end, whether a step failed or not, the backup is on disk
\* with its content or its compressed name holds a complete compressed
\* copy of it; the backup is gone only when the compression has ended
\* without error, the copy complete; and a compression in which no step
\* failed leaves what compressLogFile taken as one step leaves.
C30_OriginalOrCompleteCopy ==
    gz.src # <<>> =>
       /\ \/ gz.src \in DOMAIN dir /\ dir[gz.src] = gz.orig
          \/ CopyComplete
       /\ gz.src \notin DOMAIN dir =>
             /\ gz.pc = 0
             /\ gz.err = NoErr
             /\ CopyComplete
       /\ (gz.pc = 0 /\ gz.err = NoErr) =>
             dir = compressLogFile(gz.from, gz.src, gz.dst)

\* a compression failed after it had truncated the compressed copy that
\* existed: the copy is gone, the backup is there with its content
C30_Witness ==
    /\ gz.src # <<>>
    /\ gz.pc = 0
    /\ gz.err \in {"copy", "gzclose", "gzfclose", "fclose", "remove"}
    /\ gz.had
    /\ gz.dst \notin DOMAIN dir
    /\ gz.src \in DOMAIN dir
    /\ dir[gz.src] = gz.orig

\* C31: a compression that has failed, at whichever of its steps, leaves
\* the backup on disk with its content, and every other file as the
\* compression found it; at the compressed name there is no file, or
\* (when the failure came before the destination was opened) the file that
\* was there before, untouched; no result of a call of the logger carries
\* the error; and the compression of every other uncompressed backup can
\* begin.
C31_CompressionFailureIsolated ==
    (gz.pc = 0 /\ gz.err # NoErr) =>
       /\ gz.src \in DOMAIN dir
       /\ dir[gz.src] = gz.orig
       /\ \/ gz.dst \notin DOMAIN dir
          \/ /\ gz.err \in {"open", "stat", "create"}
             /\ gz.dst \in DOMAIN gz.from
             /\ dir[gz.dst] = gz.from[gz.dst]
       /\ \A n \in (DOMAIN gz.from) \ {gz.dst} :
             n \in DOMAIN dir /\ dir[n] = gz.from[n]
       /\ ret.err = NoErr
       /\ file = Nil
       /\ \A o \in Uncompressed(dir) \ {gz.src} : ENABLED gzBegin(o)

\* a backup has been compressed after the compression of another one had
\* failed during its copy or one of its closes; that one is still there
C31_Witness ==
    /\ gz.pc = 0
    /\ gz.err = NoErr
    /\ gz.src # <<>>
    /\ gz.src \notin DOMAIN dir
    /\ gz.dst \in DOMAIN dir
    /\ gz.failed # <<>>
    /\ gz.failed # gz.src
    /\ gz.failed \in DOMAIN dir
    /\ (gz.failed \o <<compressSuffix>>) \notin DOMAIN dir

\* C32 as stated: with Compress set, a mill cycle does not compress a
\* plain backup of its listing that has a compressed counterpart on disk:
\* after the cycle the counterpart, if retention kept it, has the content
\* it had before.
C32_CounterpartNotOverwritten ==
    (ret.op = "mill" /\ Compress) =>
        \A n \in Listed :
            (/\ ~IsPacked(n)
             /\ n \in DOMAIN pre.dir
             /\ PackedName(n) \in DOMAIN pre.dir
             /\ ~IsDir(pre.dir, PackedName(n))
             /\ PackedName(n) \in DOMAIN dir)
            => dir[PackedName(n)] = pre.dir[PackedName(n)]

\* C33: with a rotation interval set, a Write that finds the file open and
\* lastRotationTime at the zero time does not take the interval for due: if
\* its payload fits the live file it rotates nothing.
C33_ZeroTimeNeverDue ==
    (/\ ret.op = "Write"
     /\ RotationInterval > 0
     /\ pre.file = Open
     /\ pre.lastRotationTime = ZeroTime
     /\ Len(ret.p) <= max
     /\ pre.size + Len(ret.p) <= max)
    => ret.made = <<>>

\* C34: a rotation in which openNew's stat of the live path fails with an
\* error other than not-exist (a Rotate, or a Write on the open file whose
\* payload does not fit it) returns an error, makes no backup and leaves
\* the live file with the content it had.
C34_StatErrorFailsRotation ==
    (/\ ret.F = "stat"
     /\ \/ ret.op = "Rotate"
        \/ /\ ret.op = "Write"
           /\ pre.file = Open
           /\ Len(ret.p) <= max
           /\ pre.size + Len(ret.p) > max)
    => /\ ret.err # NoErr
       /\ ret.made = <<>>
       /\ HasLive(pre.dir) => (HasLive(dir) /\ Live(dir) = Live(pre.dir))

\* C32 as amended: with Compress set, a mill cycle compresses a plain
\* backup of its listing that retention keeps also when its compressed
\* counterpart is on disk: after the cycle the counterpart holds the
\* compression of the plain file and the plain file is gone.
C32_CounterpartRewritten ==
    (ret.op = "mill" /\ Compress) =>
        \A n \in Listed :
            (/\ ~IsPacked(n)
             /\ n \in DOMAIN pre.dir
             /\ PackedName(n) \in DOMAIN pre.dir
             /\ ~IsDir(pre.dir, PackedName(n))
             /\ PackedName(n) \in DOMAIN dir)
            => /\ dir[PackedName(n)] = gzip(pre.dir[n])
               /\ n \notin DOMAIN dir

\* a cycle found a plain backup next to a half-written compressed one and
\* left the complete compression of the plain file under that name
C32_Witness ==
    /\ ret.op = "mill"
    /\ Compress
    /\ \E n \in Listed :
          /\ ~IsPacked(n)
          /\ n \in DOMAIN pre.dir
          /\ PackedName(n) \in DOMAIN pre.dir
          /\ pre.dir[PackedName(n)] = <<GzHeader>>
          /\ pre.dir[n] = <<OldByte>>
          /\ n \notin DOMAIN dir
          /\ PackedName(n) \in DOMAIN dir
          /\ dir[PackedName(n)] = gzip(<<OldByte>>)

\* C35: a Write that finds the logger without an open file and succeeds
\* has started the mill goroutine and left a notification pending for it,
\* also when it opened the existing live file and sealed no backup.
C35_FirstWriteQueuesCycle ==
    (ret.op = "Write" /\ pre.file = Nil /\ ret.err = NoErr) =>
        /\ startMill
        /\ millCh = millChCap

\* a mill cycle has compressed or removed a backup an earlier run left,
\* while this run has rotated nothing: the live file still begins with the
\* content it was found with and has only grown
C35_Witness ==
    /\ ret.op = "mill"
    /\ HasLive(dir)
    /\ Live(dir) = <<OldByte, NewByte>>
    /\ Sealed(0) \in DOMAIN pre.dir
    /\ Sealed(0) \notin DOMAIN dir
    /\ pre.dir[Sealed(0)] = <<OldByte>>
    /\ \A n \in Backups(dir) : n \in DOMAIN pre.dir \/ Logical(n) \in DOMAIN pre.dir

\* C36: every successful rotation is followed by a mill cycle that begins
\* after it: the rotation returns with a notification pending, whether it
\* queued it or found one pending; a notification leaves the channel only
\* when the mill goroutine begins a cycle, whose listing (if a policy is
\* configured) is then taken of the directory of that moment, the sealed
\* backup included; and under fair scheduling of the goroutine a pending
\* notification is eventually taken.
C36_RotationFollowedByCycle ==
    /\ []((ret.op = "Write" /\ ret.err = NoErr /\ ret.made # <<>>) =>
             (startMill /\ millCh = millChCap))
    /\ [][millCh' < millCh =>
            /\ dir' = dir
            /\ (MaxBackups > 0 \/ MaxAge > 0 \/ Compress) =>
                  /\ millFiles'.on
                  /\ {millFiles'.files[i].name :
                         i \in 1..Len(millFiles'.files)} = Backups(dir)]_vars
    /\ (ret.op = "Write" /\ ret.err = NoErr /\ ret.made # <<>>)
           ~> (millCh = 0)

\* a rotation returned whose notification was dropped: one was pending
\* already, the goroutine not having begun the cycle for it
C36_Witness ==
    /\ ret.op = "Write"
    /\ ret.err = NoErr
    /\ ret.made # <<>>
    /\ ret.made[1] \in DOMAIN dir
    /\ ~millFiles.on
    /\ pre.startMill
    /\ pre.millCh = millChCap
    /\ millCh = millChCap

\* C37: with MaxBackups = N > 0 and no age limit, however rotations and
\* mill cycles interleave: a cycle, also one that works from a listing
\* taken before a rotation, removes none of the N newest logical backups of
\* the directory it works on; a cycle that ends with no notification
\* pending leaves exactly those N newest; and whenever the mill has drained
\* (goroutine started, no notification pending, no cycle in hand) at most
\* N logical backups remain.
C37_DrainedKeepsNewest ==
    (MaxBackups > 0 /\ MaxAge = 0) =>
        /\ ret.op = "mill" =>
              LogicalOf(Newest(Backups(pre.dir), MaxBackups))
                  \subseteq LogicalOf(Backups(dir))
        /\ (ret.op = "mill" /\ millCh = 0) =>
              LogicalOf(Backups(dir)) =
                  LogicalOf(Newest(Backups(pre.dir), MaxBackups))
        /\ (startMill /\ millCh = 0 /\ ~millFiles.on) =>
              Cardinality(LogicalOf(Backups(dir))) <= MaxBackups

\* a cycle that worked from a listing older than the last rotation: it
\* removed a backup of its listing, the backup sealed since is still there
\* above the cap, and the notification for the next cycle is pending
C37_Witness ==
    /\ ret.op = "mill"
    /\ MaxBackups > 0
    /\ MaxAge = 0
    /\ Listed # Backups(pre.dir)
    /\ \E n \in Listed :
          n \in DOMAIN pre.dir /\ Logical(n) \notin LogicalOf(Backups(dir))
    /\ Cardinality(LogicalOf(Backups(dir))) > MaxBackups
    /\ millCh = millChCap

\* C38: a mill cycle leaves the live file alone, under every policy and
\* interleaving: the live file is not in its listing, after the cycle it
\* is there with the content it had, and the cycle has written no
\* compressed file under the live file's name.
C38_MillSparesLiveFile ==
    ret.op = "mill" =>
        /\ filename \notin Listed
        /\ HasLive(pre.dir) => (HasLive(dir) /\ Live(dir) = Live(pre.dir))
        /\ (filename \o <<compressSuffix>>) \in DOMAIN dir =>
              /\ (filename \o <<compressSuffix>>) \in DOMAIN pre.dir
              /\ dir[filename \o <<compressSuffix>>] =
                     pre.dir[filename \o <<compressSuffix>>]

\* a cycle with compression, a count cap and an age limit all set removed
\* or compressed backups next to a live file full of this run's bytes
C38_Witness ==
    /\ ret.op = "mill"
    /\ Compress
    /\ MaxBackups > 0
    /\ MaxAge > 0
    /\ HasLive(dir)
    /\ Live(dir) = Bytes(CapMB * megabyte, NewByte)
    /\ \E n \in Listed : n \in DOMAIN pre.dir /\ n \notin DOMAIN dir
    /\ \E n \in Listed : IsPacked(n) /\ n \in DOMAIN dir

\* the contents of the backups in S, oldest rotation first, one after the
\* other
RECURSIVE ConcatFrom(_, _)
ConcatFrom(d, S) ==
    IF S = {} THEN <<>>
    ELSE LET n == CHOOSE a \in S : \A b \in S : StampOf(a) <= StampOf(b)
         IN  d[n] \o ConcatFrom(d, S \ {n})
\* every byte of the log in the directory d: the backups in the order of
\* their rotations, then the live file
AllBytes(d) ==
    ConcatFrom(d, Backups(d)) \o (IF HasLive(d) THEN Live(d) ELSE <<>>)

\* C39: with no retention and no compression, a Write or Rotate that
\* returns no error, and whose rotation (if any) came at a later millisecond
\* than every rotation before, loses and reorders nothing: the backups in
\* rotation order followed by the live file hold what they held before the
\* call, followed by the payload of the call.
C39_ByteConservation ==
    (/\ ret.op \in {"Write", "Rotate"}
     /\ ret.err = NoErr
     /\ MaxBackups = 0 /\ MaxAge = 0 /\ ~Compress
     /\ \A i \in 1..Len(ret.made) : ret.made[i] \notin DOMAIN pre.dir)
    => AllBytes(dir) = AllBytes(pre.dir) \o ret.p

\* C40: one Write rotates at most once and seals at most one backup,
\* whatever it finds: no open file and an existing live file, an interval
\* that has elapsed, a payload that overflows the live file, or several of
\* these; at most one file is in the directory afterwards that was not
\* there before.
C40_OneRotationPerWrite ==
    ret.op = "Write" =>
        /\ Len(ret.made) <= 1
        /\ Cardinality((DOMAIN dir) \ ((DOMAIN pre.dir) \cup {filename})) <= 1

\* a Write that found the interval elapsed and its payload too long for
\* what was left of the live file: one backup, holding the live content
C40_Witness ==
    /\ ret.op = "Write"
    /\ ret.err = NoErr
    /\ pre.file = Open
    /\ WasIntervalDue
    /\ pre.size > 0
    /\ pre.size + Len(ret.p) > max
    /\ Len(ret.made) = 1
    /\ ret.made[1] \in DOMAIN dir
    /\ dir[ret.made[1]] = Live(pre.dir)
    /\ Live(dir) = ret.p
====
